---- MODULE Spec2Model ----
(***************************************************************************)
(* A model of pets/sim.py: class SimPETS, the simulation object that       *)
(* allocates the domains of a porous-electrode cell model, gives every     *)
(* variable an initial condition or guess (fresh, or from the output of a  *)
(* previous run), and drives the time integration report by report.        *)
(*                                                                         *)
(* Numbers.  The source computes in floating point.  The model computes    *)
(* in exact fixed point: every real is an integer number of units, the     *)
(* unit chosen so that each operation of the source (scaling a draw,       *)
(* taking the mean of at most MaxCount values, subtracting, adding) is     *)
(* exact.  np.random.rand draws from [0, 1); the model draws from the      *)
(* grid {0/RandGrid, ..., (RandGrid-1)/RandGrid}.                          *)
(*                                                                         *)
(* Collaborators.  The cell model self.m (pets.mod_cell, daetools) and the *)
(* solver are outside this file.  The model object is modelled as a        *)
(* recorder of the calls sim.py makes on it (CreateArray, SetInitialGuess, *)
(* SetInitialCondition, AssignValue); the solver as a nondeterministic     *)
(* answer to IntegrateUntilTime.                                           *)
(***************************************************************************)
EXTENDS Integers, Sequences, FiniteSets, TLC

VARIABLES
  pc,             \* "new" (not constructed), "constructed", "failed" (__init__ raised)
  err,            \* the exception the last handler raised, or "none"
  ndD_s,          \* system-level parameter dictionary
  ndD_e,          \* electrode-level parameter dictionary
  matFile,        \* contents of <prevDir>/output_data.mat on disk
  dataPrev,       \* self.dataPrev: the loaded checkpoint (<<>> when not loaded)
  Dmn,            \* CreateArray calls received by the model: <<domain, size>>
  initial,        \* initial values received by the model: [var, kind, val]
  varsRun,        \* [done, nAlloc]: outcome of SetUpVariables and the number of
                  \* allocations made when it was called
  rngStream,      \* the output stream of np.random (cyclic), as grid indices
  rngPos,         \* number of draws consumed
  ReportingTimes, \* self.ReportingTimes
  TimeHorizon,    \* self.TimeHorizon
  CurrentTime,    \* self.CurrentTime
  time,           \* local `time` of Run
  runState,       \* "Idle", "Integrating", "Stopped", "Failed"
  nextIdx,        \* position of the for loop of Run in ReportingTimes
  tScale,         \* self.tScale
  events          \* calls Run made on the solver and the log, in order

setupVars == <<pc, err, ndD_s, ndD_e, matFile, dataPrev, Dmn, initial, varsRun,
               rngStream, rngPos>>
runVars == <<ReportingTimes, TimeHorizon, CurrentTime, time, runState, nextIdx, tScale,
             events>>
vars == <<setupVars, runVars>>

----------------------------------------------------------------------------
(* Bounds of the model *)

MaxNvol == 2
MaxNpart == 2
MaxCount == 3
RandGrid == 5
MaxSamples == 2
MaxAllocCalls == 2
MaxTime == 4

----------------------------------------------------------------------------
(* Fixed-point numbers *)

RECURSIVE Gcd(_, _)
Gcd(a, b) == IF b = 0 THEN a ELSE Gcd(b, a % b)

RECURSIVE LcmUpTo(_)
LcmUpTo(n) == IF n <= 1 THEN 1 ELSE LET l == LcmUpTo(n - 1) IN (l * n) \div Gcd(l, n)

\* np.mean divides by a length in 1..MaxCount: exact in units of 1/MeanDen
MeanDen == LcmUpTo(MaxCount)

\* epsrnd = 0.0001 (sim.py:83), in units
epsrnd == 2 * RandGrid * MeanDen

\* 1.0 in units
One == 10000 * epsrnd

Abs(x) == IF x < 0 THEN -x ELSE x

RECURSIVE SumSeq(_)
SumSeq(s) == IF s = <<>> THEN 0 ELSE Head(s) + SumSeq(Tail(s))

----------------------------------------------------------------------------
(* Python values and numpy indexing *)

\* A number of psd_num: dtype "int" or "float", value h/2
Num(dtype, h) == [dtype |-> dtype, h |-> h]

\* int(x): truncation toward zero
PyInt(x) == IF x.h >= 0 THEN x.h \div 2 ELSE -((-x.h) \div 2)

\* range(x) and np.random.rand(x) accept only integers
IsInteger(x) == x.dtype = "int"

\* a[r, c] on a 2-D array (a sequence of rows), Python indices, negative from the end
PyIdx(n, i) == IF i < 0 THEN n + i + 1 ELSE i + 1

InBounds(a, r, c) ==
  /\ PyIdx(Len(a), r) \in 1..Len(a)
  /\ PyIdx(Len(a[PyIdx(Len(a), r)]), c) \in 1..Len(a[PyIdx(Len(a), r)])

At(a, r, c) == a[PyIdx(Len(a), r)][PyIdx(Len(a[PyIdx(Len(a), r)]), c)]

\* "partTrode{l}vol{i}part{j}_".format(l=l, i=i, j=j)
partStr(l, i, j) == "partTrode" \o l \o "vol" \o ToString(i) \o "part" \o ToString(j) \o "_"

----------------------------------------------------------------------------
(* The configuration dictionaries the caller passes to __init__ *)

Range(s) == {s[k] : k \in DOMAIN s}

Cells(nv, np) == (0..(nv - 1)) \X (0..(np - 1))

\* every (l, i, j) of the configuration
Particles(s) ==
  UNION {{<<l, c[1], c[2]>> : c \in Cells(s.Nvol[l], s.Npart[l])} : l \in Range(s.trodes)}

\* The configurations explored: region lists, volume and particle counts, a
\* template (type, count) shared by the particles, and at most one variation:
\*   "odd"      one particle of the other known type and another count
\*   "unknown"  one particle whose type is in neither type list
\*   "float"    one region whose psd_num array has a float dtype
\*   "missing"  (restart) one key absent from output_data.mat
TrodeLists == {<<"c">>, <<"a", "c">>}

OneVarTypes == {"ACR", "CHR"}

TwoVarTypes == {"CHR2"}

NoVariation == [kind |-> "none", l |-> "", i |-> 0, j |-> 0, frac |-> 0, key |-> ""]

StructVariations(s) ==
  {[kind |-> k, l |-> p[1], i |-> p[2], j |-> p[3], frac |-> 0, key |-> ""] :
      k \in {"odd", "unknown"}, p \in Particles(s)}
  \cup {[kind |-> "float", l |-> l, i |-> 0, j |-> 0, frac |-> f, key |-> ""] :
      l \in Range(s.trodes), f \in {0, 1}}

OtherCount(n) == IF n > 1 THEN n - 1 ELSE MaxCount

OtherType(t) == IF t \in OneVarTypes THEN "CHR2" ELSE "CHR"

TypeOf(v, baseType, l, i, j) ==
  IF v.l = l /\ v.i = i /\ v.j = j /\ v.kind = "odd" THEN OtherType(baseType)
  ELSE IF v.l = l /\ v.i = i /\ v.j = j /\ v.kind = "unknown" THEN "bogus"
  ELSE baseType

CountOf(v, baseCount, l, i, j) ==
  IF v.kind = "float" /\ v.l = l THEN Num("float", 2 * baseCount + v.frac)
  ELSE IF v.l = l /\ v.i = i /\ v.j = j /\ v.kind = "odd" THEN Num("int", 2 * OtherCount(baseCount))
  ELSE Num("int", 2 * baseCount)

\* volume and particle counts: the anode's are the complement of the cathode's,
\* so that the two regions differ
Structure(trodes, ns, nv, np) ==
  [trodes |-> trodes,
   Nvol   |-> [l \in {"s"} \cup Range(trodes) |->
                 IF l = "s" THEN ns ELSE IF l = "c" THEN nv ELSE MaxNvol + 1 - nv],
   Npart  |-> [l \in Range(trodes) |-> IF l = "c" THEN np ELSE MaxNpart + 1 - np]]

System(st, v, baseCount, prevDir) ==
  ("prevDir" :> prevDir) @@ ("trodes" :> st.trodes) @@ ("Nvol" :> st.Nvol)
  @@ ("Npart" :> st.Npart)
  @@ ("psd_num" :> [l \in Range(st.trodes) |->
        [c \in Cells(st.Nvol[l], st.Npart[l]) |-> CountOf(v, baseCount, l, c[1], c[2])]])
  @@ ("1varTypes" :> OneVarTypes) @@ ("2varTypes" :> TwoVarTypes)
  @@ ("cs0" :> [l \in Range(st.trodes) |-> IF l = "a" THEN One \div 100 ELSE 99 * (One \div 100)])
  @@ ("c0" :> One) @@ ("phi_cathode" :> 3 * One)

Electrodes(st, v, baseType) ==
  [l \in Range(st.trodes) |->
    [indvPart |-> [c \in Cells(st.Nvol[l], st.Npart[l]) |->
                     [type |-> TypeOf(v, baseType, l, c[1], c[2])]]]]

----------------------------------------------------------------------------
(* output_data.mat as a previous run with the same configuration wrote it: *)
(* every quantity over nT time samples.  Sample t of a quantity holds a    *)
(* value that names the quantity, its indices and t.                       *)

RegIdx(l) == IF l = "s" THEN 0 ELSE IF l = "a" THEN 1 ELSE 2

CkVal(tag, l, i, j, k, t) ==
  (((((tag * 3 + RegIdx(l)) * (MaxNvol + 2) + i) * (MaxNpart + 2) + j)
      * (MaxCount + 2) + k) * (MaxSamples + 2)) + t

\* a quantity with one value per time sample: shape (1, nT)
Series(tag, l, i, j, nT) == << [t \in 1..nT |-> CkVal(tag, l, i, j, 0, t)] >>

\* a quantity with one value per volume: shape (nT, n)
PerVolume(tag, l, n, nT) == [t \in 1..nT |-> [c \in 1..n |-> CkVal(tag, l, c - 1, 0, 0, t)]]

\* a particle profile: shape (nT, n)
Profile(tag, l, i, j, n, nT) == [t \in 1..nT |-> [c \in 1..n |-> CkVal(tag, l, i, j, c - 1, t)]]

RECURSIVE MergeAll(_)
MergeAll(S) == IF S = {} THEN <<>> ELSE LET f == CHOOSE g \in S : TRUE IN f @@ MergeAll(S \ {f})

ParticleData(s, e, l, i, j, nT) ==
  LET n == PyInt(s.psd_num[l][<<i, j>>])
      t == e[l].indvPart[<<i, j>>].type
      p == partStr(l, i, j)
  IN IF t \in s["1varTypes"] THEN
       ((p \o "cbar") :> Series(8, l, i, j, nT)) @@ ((p \o "c") :> Profile(9, l, i, j, n, nT))
     ELSE IF t \in s["2varTypes"] THEN
       ((p \o "cbar") :> Series(8, l, i, j, nT))
       @@ ((p \o "c1bar") :> Series(10, l, i, j, nT))
       @@ ((p \o "c2bar") :> Series(11, l, i, j, nT))
       @@ ((p \o "c1") :> Profile(12, l, i, j, n, nT))
       @@ ((p \o "c2") :> Profile(13, l, i, j, n, nT))
     ELSE <<>>

RegionData(s, l, nT) ==
  (("c_lyte_" \o l) :> PerVolume(6, l, s.Nvol[l], nT))
  @@ (("phi_lyte_" \o l) :> PerVolume(7, l, s.Nvol[l], nT))
  @@ (IF l = "s" THEN <<>>
      ELSE (("ffrac_" \o l) :> Series(3, l, 0, 0, nT))
           @@ (("R_Vp_" \o l) :> PerVolume(4, l, s.Nvol[l], nT))
           @@ (("phi_bulk_" \o l) :> PerVolume(5, l, s.Nvol[l], nT)))

OutputData(s, e, nT) ==
  ("current" :> Series(1, "s", 0, 0, nT)) @@ ("phi_applied" :> Series(2, "s", 0, 0, nT))
  @@ MergeAll({RegionData(s, l, nT) : l \in {"s"} \cup Range(s.trodes)})
  @@ MergeAll({ParticleData(s, e, p[1], p[2], p[3], nT) : p \in Particles(s)})

Without(f, k) == [x \in DOMAIN f \ {k} |-> f[x]]

----------------------------------------------------------------------------
(* The model object self.m, as sim.py uses it *)

\* a variable of the model: name, region, volume, particle, point (-1: no such index)
Var(name, l, i, j, k) == <<name, l, i, j, k>>

\* a domain of the model: name, region, volume, particle
Domain(name, l, i, j) == <<name, l, i, j>>

\* The state of a handler that is running: the initial values given so far, the
\* exception raised (once raised, the rest of the handler is skipped) and the
\* position in the random stream.
Raise(st, e) == IF st.err # "none" THEN st ELSE [st EXCEPT !.err = e]

Give(st, var, kind, val) ==
  IF st.err # "none" THEN st
  ELSE [st EXCEPT !.initial = Append(@, [var |-> var, kind |-> kind, val |-> val])]

SetInitialGuess(st, var, val) == Give(st, var, "guess", val)

SetInitialCondition(st, var, val) == Give(st, var, "condition", val)

AssignValue(st, var, val) == Give(st, var, "assigned", val)

\* number of SetUpParametersAndDomains calls made (the cathode is always present)
NumAlloc == Cardinality({k \in DOMAIN Dmn : Dmn[k][1] = Domain("DmnCell", "c", -1, -1)})

RECURSIVE Concat(_)
Concat(ss) == IF ss = <<>> THEN <<>> ELSE Head(ss) \o Concat(Tail(ss))

----------------------------------------------------------------------------
(* __init__ (sim.py:17-33) *)

\* The caller passes both dictionaries (the None check of line 19 passes).
Construct ==
  /\ pc = "new"
  /\ LET s0 == ("currPrev" :> 0) @@ ("phiPrev" :> 0) @@ ndD_s
         restart == ndD_s["prevDir"] # "false"
         hasCurr == "current" \in DOMAIN matFile
         hasPhi == "phi_applied" \in DOMAIN matFile
         s1 == IF restart /\ hasCurr
               THEN ("currPrev" :> At(matFile["current"], 0, -1)) @@ s0 ELSE s0
         s2 == IF restart /\ hasCurr /\ hasPhi
               THEN ("phiPrev" :> At(matFile["phi_applied"], 0, -1)) @@ s1 ELSE s1
         ok == ~restart \/ (hasCurr /\ hasPhi)
     IN /\ ndD_s' = s2
        /\ dataPrev' = IF restart THEN matFile ELSE dataPrev
        /\ pc' = IF ok THEN "constructed" ELSE "failed"
        /\ err' = IF ok THEN "none" ELSE "KeyError"
  /\ UNCHANGED <<ndD_e, matFile, Dmn, initial, varsRun, rngStream, rngPos, runVars>>

----------------------------------------------------------------------------
(* SetUpParametersAndDomains (sim.py:35-46) *)

ParticleDomains(l) ==
  Concat([i \in 1..ndD_s["Nvol"][l] |->
    [j \in 1..ndD_s["Npart"][l] |->
      <<Domain("particle", l, i - 1, j - 1), PyInt(ndD_s["psd_num"][l][<<i - 1, j - 1>>])>>]])

TrodeDomains(l) ==
  << <<Domain("DmnCell", l, -1, -1), ndD_s["Nvol"][l]>>,
     <<Domain("DmnPart", l, -1, -1), ndD_s["Npart"][l]>> >> \o ParticleDomains(l)

CreatedArrays ==
  (IF ndD_s["Nvol"]["s"] >= 1
   THEN << <<Domain("DmnCell", "s", -1, -1), ndD_s["Nvol"]["s"]>> >> ELSE <<>>)
  \o Concat([n \in 1..Len(ndD_s["trodes"]) |-> TrodeDomains(ndD_s["trodes"][n])])

\* The calls explored: up to MaxAllocCalls of them, all before SetUpVariables.
SetUpParametersAndDomains ==
  /\ pc = "constructed"
  /\ varsRun.done = "no"
  /\ NumAlloc < MaxAllocCalls
  /\ Dmn' = Dmn \o CreatedArrays
  /\ err' = "none"
  /\ UNCHANGED <<pc, ndD_s, ndD_e, matFile, dataPrev, initial, varsRun, rngStream, rngPos,
                 runVars>>

----------------------------------------------------------------------------
(* SetUpVariables, fresh start (sim.py:53-102) *)

\* np.random.rand(n): the next n values of the stream, at position pos
Rand(pos, n) == [k \in 1..n |-> rngStream[((pos + k - 1) % Len(rngStream)) + 1]]

\* epsrnd*(u - 0.5) for u = g/RandGrid, elementwise
Scaled(u) == [k \in DOMAIN u |-> 2 * MeanDen * u[k] - RandGrid * MeanDen]

\* np.mean(r)
Mean(r) == SumSeq(r) \div Len(r)

\* DeMeaned with the subtraction of the mean left out
DeMeanedNot(r) == r

\* r -= np.mean(r)
DeMeaned(r) == IF r = <<>> THEN r ELSE [k \in DOMAIN r |-> r[k] - Mean(r)]

\* for k in range(Nij): part.c.SetInitialCondition(k, cs0)
RECURSIVE FreshPoints(_, _, _, _, _, _)
FreshPoints(st, l, i, j, k, n) ==
  IF k >= n \/ st.err # "none" THEN st
  ELSE FreshPoints(SetInitialCondition(st, Var("c", l, i, j, k), ndD_s["cs0"][l]),
                   l, i, j, k + 1, n)

\* for k in range(Nij): c1 and c2 get cs0 + rnd1[k], cs0 + rnd2[k]
RECURSIVE FreshPoints2(_, _, _, _, _, _, _, _)
FreshPoints2(st, l, i, j, k, n, rnd1, rnd2) ==
  IF k >= n \/ st.err # "none" THEN st
  ELSE FreshPoints2(
         SetInitialCondition(
           SetInitialCondition(st, Var("c1", l, i, j, k), ndD_s["cs0"][l] + rnd1[k + 1]),
           Var("c2", l, i, j, k), ndD_s["cs0"][l] + rnd2[k + 1]),
         l, i, j, k + 1, n, rnd1, rnd2)

\* FreshParticle with the point loop of a single-field particle starting at 1
FreshParticleFromOne(st, l, i, j) ==
  LET cs0 == ndD_s["cs0"][l]
      Nij == ndD_s["psd_num"][l][<<i, j>>]
      solidType == ndD_e[l].indvPart[<<i, j>>].type
  IN IF st.err # "none" THEN st
     ELSE IF solidType \in ndD_s["1varTypes"] THEN
       LET s1 == SetInitialGuess(st, Var("cbar", l, i, j, -1), cs0)
       IN IF ~IsInteger(Nij) THEN Raise(s1, "TypeError")
          ELSE FreshPoints(s1, l, i, j, 1, PyInt(Nij))
     ELSE IF solidType \in ndD_s["2varTypes"] THEN
       LET s1 == SetInitialGuess(st, Var("c1bar", l, i, j, -1), cs0)
           s2 == SetInitialGuess(s1, Var("c2bar", l, i, j, -1), cs0)
           s3 == SetInitialGuess(s2, Var("cbar", l, i, j, -1), cs0)
       IN IF ~IsInteger(Nij) THEN Raise(s3, "TypeError")
          ELSE LET n == PyInt(Nij)
                   rnd1 == DeMeaned(Scaled(Rand(s3.rngPos, n)))
                   rnd2 == DeMeaned(Scaled(Rand(s3.rngPos + n, n)))
               IN FreshPoints2([s3 EXCEPT !.rngPos = @ + 2 * n], l, i, j, 0, n, rnd1, rnd2)
     ELSE st

\* the body of the particle loop, lines 69-90
FreshParticle(st, l, i, j) ==
  LET cs0 == ndD_s["cs0"][l]
      Nij == ndD_s["psd_num"][l][<<i, j>>]
      solidType == ndD_e[l].indvPart[<<i, j>>].type
  IN IF st.err # "none" THEN st
     ELSE IF solidType \in ndD_s["1varTypes"] THEN
       LET s1 == SetInitialGuess(st, Var("cbar", l, i, j, -1), cs0)
       IN IF ~IsInteger(Nij) THEN Raise(s1, "TypeError")
          ELSE FreshPoints(s1, l, i, j, 0, PyInt(Nij))
     ELSE IF solidType \in ndD_s["2varTypes"] THEN
       LET s1 == SetInitialGuess(st, Var("c1bar", l, i, j, -1), cs0)
           s2 == SetInitialGuess(s1, Var("c2bar", l, i, j, -1), cs0)
           s3 == SetInitialGuess(s2, Var("cbar", l, i, j, -1), cs0)
       IN IF ~IsInteger(Nij) THEN Raise(s3, "TypeError")
          ELSE LET n == PyInt(Nij)
                   rnd1 == DeMeaned(Scaled(Rand(s3.rngPos, n)))
                   rnd2 == DeMeaned(Scaled(Rand(s3.rngPos + n, n)))
               IN FreshPoints2([s3 EXCEPT !.rngPos = @ + 2 * n], l, i, j, 0, n, rnd1, rnd2)
     ELSE st

\* for j in range(Npart[l])
RECURSIVE FreshParticles(_, _, _, _)
FreshParticles(st, l, i, j) ==
  IF j >= ndD_s["Npart"][l] \/ st.err # "none" THEN st
  ELSE FreshParticles(FreshParticle(st, l, i, j), l, i, j + 1)

\* for i in range(Nvol[l]), lines 59-90
RECURSIVE FreshVolumes(_, _, _)
FreshVolumes(st, l, i) ==
  IF i >= ndD_s["Nvol"][l] \/ st.err # "none" THEN st
  ELSE LET s1 == SetInitialGuess(st, Var("R_Vp", l, i, -1, -1), 0)
           s2 == SetInitialGuess(s1, Var("phi_bulk", l, i, -1, -1),
                                 IF l = "a" THEN 0 ELSE ndD_s["phi_cathode"])
       IN FreshVolumes(FreshParticles(s2, l, i, 0), l, i + 1)

\* for l in ndD_s["trodes"], lines 55-90
RECURSIVE FreshSolids(_, _)
FreshSolids(st, n) ==
  IF n > Len(ndD_s["trodes"]) \/ st.err # "none" THEN st
  ELSE LET l == ndD_s["trodes"][n]
       IN FreshSolids(FreshVolumes(SetInitialGuess(st, Var("ffrac", l, -1, -1, -1),
                                                   ndD_s["cs0"][l]), l, 0), n + 1)

\* for i in range(Nvol[l]): c_lyte and phi_lyte of region l, lines 94-96 and 98-100
RECURSIVE FreshLyte(_, _, _)
FreshLyte(st, l, i) ==
  IF i >= ndD_s["Nvol"][l] \/ st.err # "none" THEN st
  ELSE FreshLyte(
         SetInitialGuess(
           SetInitialCondition(st, Var("c_lyte", l, i, -1, -1), ndD_s["c0"]),
           Var("phi_lyte", l, i, -1, -1), 0),
         l, i + 1)

\* for l in ndD_s["trodes"], lines 97-100
RECURSIVE FreshLyteTrodes(_, _)
FreshLyteTrodes(st, n) ==
  IF n > Len(ndD_s["trodes"]) \/ st.err # "none" THEN st
  ELSE FreshLyteTrodes(FreshLyte(st, ndD_s["trodes"][n], 0), n + 1)

Fresh(st) ==
  SetInitialGuess(FreshLyteTrodes(FreshLyte(FreshSolids(st, 1), "s", 0), 1),
                  Var("phi_applied", "", -1, -1, -1), 0)

----------------------------------------------------------------------------
(* SetUpVariables, restart (sim.py:104-151) *)

\* FromPrev reading the first time sample instead of the last
FromPrevFirstSample(st, var, kind, key, r, c) ==
  IF st.err # "none" THEN st
  ELSE IF key \notin DOMAIN dataPrev THEN Raise(st, "KeyError")
  ELSE IF ~InBounds(dataPrev[key], r, c) THEN Raise(st, "IndexError")
  ELSE Give(st, var, kind, At(dataPrev[key], 0, IF c = -1 THEN 0 ELSE c))

\* x.Set...(dPrev[key][r, c]): the lookup and the indexing come before the call
FromPrev(st, var, kind, key, r, c) ==
  IF st.err # "none" THEN st
  ELSE IF key \notin DOMAIN dataPrev THEN Raise(st, "KeyError")
  ELSE IF ~InBounds(dataPrev[key], r, c) THEN Raise(st, "IndexError")
  ELSE Give(st, var, kind, At(dataPrev[key], r, c))

\* for k in range(Nij): part.<name>.SetInitialCondition(k, dPrev[partStr + name][-1,k])
RECURSIVE RestartPoints(_, _, _, _, _, _)
RestartPoints(st, l, i, j, k, n) ==
  IF k >= n \/ st.err # "none" THEN st
  ELSE RestartPoints(FromPrev(st, Var("c", l, i, j, k), "condition",
                              partStr(l, i, j) \o "c", -1, k),
                     l, i, j, k + 1, n)

RECURSIVE RestartPoints2(_, _, _, _, _, _)
RestartPoints2(st, l, i, j, k, n) ==
  IF k >= n \/ st.err # "none" THEN st
  ELSE RestartPoints2(
         FromPrev(
           FromPrev(st, Var("c1", l, i, j, k), "condition", partStr(l, i, j) \o "c1", -1, k),
           Var("c2", l, i, j, k), "condition", partStr(l, i, j) \o "c2", -1, k),
         l, i, j, k + 1, n)

\* the body of the particle loop, lines 115-137
RestartParticle(st, l, i, j) ==
  LET Nij == ndD_s["psd_num"][l][<<i, j>>]
      solidType == ndD_e[l].indvPart[<<i, j>>].type
      p == partStr(l, i, j)
  IN IF st.err # "none" THEN st
     ELSE IF solidType \in ndD_s["1varTypes"] THEN
       LET s1 == FromPrev(st, Var("cbar", l, i, j, -1), "guess", p \o "cbar", 0, -1)
       IN IF ~IsInteger(Nij) THEN Raise(s1, "TypeError")
          ELSE RestartPoints(s1, l, i, j, 0, PyInt(Nij))
     ELSE IF solidType \in ndD_s["2varTypes"] THEN
       LET s1 == FromPrev(st, Var("c1bar", l, i, j, -1), "guess", p \o "c1bar", 0, -1)
           s2 == FromPrev(s1, Var("c2bar", l, i, j, -1), "guess", p \o "c2bar", 0, -1)
           s3 == FromPrev(s2, Var("cbar", l, i, j, -1), "guess", p \o "cbar", 0, -1)
       IN IF ~IsInteger(Nij) THEN Raise(s3, "TypeError")
          ELSE RestartPoints2(s3, l, i, j, 0, PyInt(Nij))
     ELSE st

\* for j in range(Npart[l])
RECURSIVE RestartParticles(_, _, _, _)
RestartParticles(st, l, i, j) ==
  IF j >= ndD_s["Npart"][l] \/ st.err # "none" THEN st
  ELSE RestartParticles(RestartParticle(st, l, i, j), l, i, j + 1)

\* for i in range(Nvol[l]), lines 109-137
RECURSIVE RestartVolumes(_, _, _)
RestartVolumes(st, l, i) ==
  IF i >= ndD_s["Nvol"][l] \/ st.err # "none" THEN st
  ELSE LET s1 == FromPrev(st, Var("R_Vp", l, i, -1, -1), "guess", "R_Vp_" \o l, -1, i)
           s2 == FromPrev(s1, Var("phi_bulk", l, i, -1, -1), "guess", "phi_bulk_" \o l, -1, i)
       IN RestartVolumes(RestartParticles(s2, l, i, 0), l, i + 1)

\* for l in ndD_s["trodes"], lines 106-137
RECURSIVE RestartSolids(_, _)
RestartSolids(st, n) ==
  IF n > Len(ndD_s["trodes"]) \/ st.err # "none" THEN st
  ELSE LET l == ndD_s["trodes"][n]
       IN RestartSolids(
            RestartVolumes(FromPrev(st, Var("ffrac", l, -1, -1, -1), "guess",
                                    "ffrac_" \o l, 0, -1), l, 0),
            n + 1)

\* for i in range(Nvol[l]): c_lyte and phi_lyte of region l, lines 138-142 and 144-148
RECURSIVE RestartLyte(_, _, _)
RestartLyte(st, l, i) ==
  IF i >= ndD_s["Nvol"][l] \/ st.err # "none" THEN st
  ELSE RestartLyte(
         FromPrev(
           FromPrev(st, Var("c_lyte", l, i, -1, -1), "condition", "c_lyte_" \o l, -1, i),
           Var("phi_lyte", l, i, -1, -1), "guess", "phi_lyte_" \o l, -1, i),
         l, i + 1)

\* for l in ndD_s["trodes"], lines 143-148
RECURSIVE RestartLyteTrodes(_, _)
RestartLyteTrodes(st, n) ==
  IF n > Len(ndD_s["trodes"]) \/ st.err # "none" THEN st
  ELSE RestartLyteTrodes(RestartLyte(st, ndD_s["trodes"][n], 0), n + 1)

Restart(st) ==
  FromPrev(RestartLyteTrodes(RestartLyte(RestartSolids(st, 1), "s", 0), 1),
           Var("phi_applied", "", -1, -1, -1), "guess", "phi_applied", 0, -1)

----------------------------------------------------------------------------
(* SetUpVariables (sim.py:48-152) *)

\* SetUpVariablesFrom without the assignment of dummyVar
SetUpVariablesNoDummy(st) == IF ndD_s["prevDir"] = "false" THEN Fresh(st) ELSE Restart(st)

\* the whole handler, from the state st it starts in
SetUpVariablesFrom(st) ==
  AssignValue(IF ndD_s["prevDir"] = "false" THEN Fresh(st) ELSE Restart(st),
              Var("dummyVar", "", -1, -1, -1), 0)

\* The handler reads no record of the domains: it can be called whether or
\* not SetUpParametersAndDomains has run.  One call is explored.
SetUpVariables ==
  /\ pc = "constructed"
  /\ varsRun.done = "no"
  /\ LET st == SetUpVariablesFrom([initial |-> initial, err |-> "none", rngPos |-> rngPos])
     IN /\ initial' = st.initial
        /\ err' = st.err
        /\ rngPos' = st.rngPos
        /\ varsRun' = [done |-> IF st.err = "none" THEN "ok" ELSE "raised", nAlloc |-> NumAlloc]
  /\ UNCHANGED <<pc, ndD_s, ndD_e, matFile, dataPrev, Dmn, rngStream, runVars>>

----------------------------------------------------------------------------
(* Run (sim.py:154-174) *)

\* int(100. * self.CurrentTime/self.TimeHorizon)
Progress(t) == (100 * t) \div TimeHorizon

\* entering Run: time = 0., and the for loop starts (or ends at once on an
\* empty ReportingTimes)
RunStart ==
  /\ runState = "Idle"
  /\ time' = 0
  /\ nextIdx' = 1
  /\ runState' = IF ReportingTimes = <<>> THEN "Stopped" ELSE "Integrating"
  /\ UNCHANGED <<ReportingTimes, TimeHorizon, CurrentTime, tScale, events, setupVars>>

\* StepEvents with the data reported before the integration call
StepEventsReportFirst(nextTime, reached) ==
  << [call |-> "Message", arg |-> <<CurrentTime * tScale, nextTime * tScale>>],
     [call |-> "ReportData", arg |-> <<reached>>],
     [call |-> "IntegrateUntilTime", arg |-> <<nextTime>>],
     [call |-> "SetProgress", arg |-> <<Progress(reached)>>] >>

\* the events of one iteration in which the solver returns `reached`
StepEvents(nextTime, reached) ==
  << [call |-> "Message", arg |-> <<CurrentTime * tScale, nextTime * tScale>>],
     [call |-> "IntegrateUntilTime", arg |-> <<nextTime>>],
     [call |-> "ReportData", arg |-> <<reached>>],
     [call |-> "SetProgress", arg |-> <<Progress(reached)>>] >>

\* AfterStep without the break
AfterStepNoBreak(nextTime, reached) ==
  IF nextIdx = Len(ReportingTimes) THEN "Stopped" ELSE "Integrating"

\* the state of the loop after an iteration: break when time < nextTime
AfterStep(nextTime, reached) ==
  IF reached < nextTime \/ nextIdx = Len(ReportingTimes) THEN "Stopped" ELSE "Integrating"

\* One iteration of the for loop.  IntegrateUntilTime(nextTime,
\* eStopAtModelDiscontinuity, True) returns the time reached, anywhere from the
\* current time to nextTime, and CurrentTime is that time.
RunStep ==
  /\ runState = "Integrating"
  /\ LET nextTime == ReportingTimes[nextIdx]
     IN \E reached \in CurrentTime..nextTime :
          /\ time' = reached
          /\ CurrentTime' = reached
          /\ events' = events \o StepEvents(nextTime, reached)
          /\ runState' = AfterStep(nextTime, reached)
          /\ nextIdx' = nextIdx + 1
  /\ UNCHANGED <<ReportingTimes, TimeHorizon, tScale, setupVars>>

\* IntegrateUntilTime raises: the exception leaves Run
RunStepFails ==
  /\ runState = "Integrating"
  /\ events' = events \o
       << [call |-> "Message",
           arg |-> <<CurrentTime * tScale, ReportingTimes[nextIdx] * tScale>>],
          [call |-> "IntegrateUntilTime", arg |-> <<ReportingTimes[nextIdx]>>] >>
  /\ runState' = "Failed"
  /\ UNCHANGED <<ReportingTimes, TimeHorizon, CurrentTime, time, nextIdx, tScale, setupVars>>

----------------------------------------------------------------------------
(* Initial states and specifications *)

\* before Run: the solver's clock at 0, nothing reported
RunIdle(times, horizon, scale) ==
  /\ ReportingTimes = times
  /\ TimeHorizon = horizon
  /\ tScale = scale
  /\ CurrentTime = 0
  /\ time = 0
  /\ runState = "Idle"
  /\ nextIdx = 1
  /\ events = <<>>

\* before __init__: the caller's dictionaries, the file on disk, the random stream
Unconstructed(s, e, file, stream) ==
  /\ pc = "new"
  /\ err = "none"
  /\ ndD_s = s
  /\ ndD_e = e
  /\ matFile = file
  /\ dataPrev = <<>>
  /\ Dmn = <<>>
  /\ initial = <<>>
  /\ varsRun = [done |-> "no", nAlloc |-> 0]
  /\ rngStream = stream
  /\ rngPos = 0

BaseTypes == {"ACR", "CHR2"}

\* the random stream of the configurations of InitSetup
SetupStream == [k \in 1..(RandGrid + 1) |-> (k * k) % RandGrid]

MissingVariations(st, baseType, baseCount) ==
  {[kind |-> "missing", l |-> "", i |-> 0, j |-> 0, frac |-> 0, key |-> k] :
     k \in DOMAIN OutputData(System(st, NoVariation, baseCount, "prev"),
                             Electrodes(st, NoVariation, baseType), 1)}

FileFor(s, e, v, nT) ==
  IF s["prevDir"] = "false" THEN <<>>
  ELSE IF v.kind = "missing" THEN Without(OutputData(s, e, nT), v.key)
  ELSE OutputData(s, e, nT)

\* the variations of a template: the structural ones on the largest count, a
\* missing key on the smallest
VariationsOf(st, baseType, baseCount, prevDir) ==
  {NoVariation}
  \cup (IF baseCount = MaxCount THEN StructVariations(st) ELSE {})
  \cup (IF baseCount = 1 /\ prevDir # "false"
        THEN MissingVariations(st, baseType, baseCount) ELSE {})

InitSetup ==
  /\ \E trodes \in TrodeLists, ns \in 0..1, nv \in 1..MaxNvol, np \in 1..MaxNpart,
        baseType \in BaseTypes, baseCount \in 1..MaxCount, prevDir \in {"false", "prev"} :
       LET st == Structure(trodes, ns, nv, np)
       IN \E v \in VariationsOf(st, baseType, baseCount, prevDir) :
            \E nT \in (IF v.kind = "none" /\ prevDir # "false"
                       THEN 1..MaxSamples ELSE {MaxSamples}) :
              LET s == System(st, v, baseCount, prevDir)
                  e == Electrodes(st, v, baseType)
              IN Unconstructed(s, e, FileFor(s, e, v, nT), SetupStream)
  /\ RunIdle(<<>>, 1, 1)

NextSetup == Construct \/ SetUpParametersAndDomains \/ SetUpVariables

Spec == InitSetup /\ [][NextSetup]_vars

\* one two-field particle, fresh start, every random stream
InitPerturb ==
  /\ \E n \in 1..MaxCount :
       \E stream \in [1..(n + 1) -> 0..(RandGrid - 1)] :
         LET st == Structure(<<"c">>, 0, 1, 1)
         IN Unconstructed(System(st, NoVariation, n, "false"),
                          Electrodes(st, NoVariation, "CHR2"), <<>>, stream)
  /\ RunIdle(<<>>, 1, 1)

SpecPerturb == InitPerturb /\ [][NextSetup]_vars

\* increasing report times within MaxTime
RECURSIVE Increasing(_)
Increasing(S) ==
  IF S = {} THEN <<>>
  ELSE LET m == CHOOSE x \in S : \A y \in S : x <= y IN <<m>> \o Increasing(S \ {m})

InitRun ==
  /\ LET st == Structure(<<"c">>, 0, 1, 1)
     IN Unconstructed(System(st, NoVariation, 1, "false"),
                      Electrodes(st, NoVariation, "ACR"), <<>>, SetupStream)
  /\ \E S \in SUBSET (1..MaxTime), scale \in {1, 60} :
       \E horizon \in (IF S = {} THEN {MaxTime} ELSE {Increasing(S)[Cardinality(S)]}) :
         RunIdle(Increasing(S), horizon, scale)

NextRun == RunStart \/ RunStep \/ RunStepFails

SpecRun == InitRun /\ [][NextRun]_vars

----------------------------------------------------------------------------
(* Observations used by the properties *)

\* the calls of Run on the solver, by name, in order
RECURSIVE CallsOf(_, _)
CallsOf(name, evs) ==
  IF evs = <<>> THEN <<>>
  ELSE (IF Head(evs).call = name THEN <<Head(evs).arg>> ELSE <<>>) \o CallsOf(name, Tail(evs))

Integrations == CallsOf("IntegrateUntilTime", events)

Reports == CallsOf("ReportData", events)

Progresses == CallsOf("SetProgress", events)

\* step k was recorded and the solver stopped short of the requested time
HaltedAt(k) == k <= Len(Reports) /\ Reports[k][1] < Integrations[k][1]

\* every integration call returned, at the time requested
AllReached ==
  /\ Len(Reports) = Len(Integrations)
  /\ \A k \in 1..Len(Reports) : Reports[k][1] = Integrations[k][1]

\* the positions of `initial` that give a value to var
Given(var) == {k \in DOMAIN initial : initial[k].var = var}

ValueOf(var) == initial[CHOOSE k \in Given(var) : TRUE].val

TypeAt(p) == ndD_e[p[1]].indvPart[<<p[2], p[3]>>].type

CountAt(p) == ndD_s["psd_num"][p[1]][<<p[2], p[3]>>]

SingleField(p) == TypeAt(p) \in ndD_s["1varTypes"]

TwoField(p) == ~SingleField(p) /\ TypeAt(p) \in ndD_s["2varTypes"]

\* a valid configuration: every type known, every discretization count a
\* positive integer
ValidConfig ==
  \A p \in Particles(ndD_s) :
    (SingleField(p) \/ TwoField(p)) /\ IsInteger(CountAt(p)) /\ PyInt(CountAt(p)) >= 1

RestartMode == ndD_s["prevDir"] # "false"

\* the keys of the checkpoint the configuration needs
ParticleKeys(p) ==
  LET str == partStr(p[1], p[2], p[3])
  IN IF SingleField(p) THEN {str \o "c", str \o "cbar"}
     ELSE IF TwoField(p)
     THEN {str \o "c1", str \o "c2", str \o "c1bar", str \o "c2bar", str \o "cbar"}
     ELSE {}

RequiredKeys ==
  {"current", "phi_applied"}
  \cup UNION {{"ffrac_" \o l, "R_Vp_" \o l, "phi_bulk_" \o l, "c_lyte_" \o l, "phi_lyte_" \o l} :
                l \in Range(ndD_s["trodes"])}
  \cup (IF ndD_s["Nvol"]["s"] >= 1 THEN {"c_lyte_s", "phi_lyte_s"} ELSE {})
  \cup UNION {ParticleKeys(p) : p \in Particles(ndD_s)}

WellFormedCheckpoint == RequiredKeys \subseteq DOMAIN matFile

\* the number of time samples of the checkpoint
NumSamples == Len(matFile["current"][1])

\* the variables of the domain
ParticleVars(p) ==
  LET pts == 0..(PyInt(CountAt(p)) - 1)
  IN IF SingleField(p)
     THEN {Var("cbar", p[1], p[2], p[3], -1)} \cup {Var("c", p[1], p[2], p[3], k) : k \in pts}
     ELSE IF TwoField(p)
     THEN {Var(n, p[1], p[2], p[3], -1) : n \in {"c1bar", "c2bar", "cbar"}}
          \cup {Var(n, p[1], p[2], p[3], k) : n \in {"c1", "c2"}, k \in pts}
     ELSE {}

DomainVars ==
  {Var("ffrac", l, -1, -1, -1) : l \in Range(ndD_s["trodes"])}
  \cup UNION {{Var(n, l, i, -1, -1) : n \in {"R_Vp", "phi_bulk"}, i \in 0..(ndD_s["Nvol"][l] - 1)} :
                l \in Range(ndD_s["trodes"])}
  \cup UNION {{Var(n, l, i, -1, -1) : n \in {"c_lyte", "phi_lyte"}, i \in 0..(ndD_s["Nvol"][l] - 1)} :
                l \in {"s"} \cup Range(ndD_s["trodes"])}
  \cup UNION {ParticleVars(p) : p \in Particles(ndD_s)}
  \cup {Var("phi_applied", "", -1, -1, -1), Var("dummyVar", "", -1, -1, -1)}

\* the checkpoint's last sample of the quantity behind a variable
TagOf(name) ==
  CASE name = "phi_applied" -> 2 [] name = "ffrac" -> 3 [] name = "R_Vp" -> 4
    [] name = "phi_bulk" -> 5 [] name = "c_lyte" -> 6 [] name = "phi_lyte" -> 7
    [] name = "cbar" -> 8 [] name = "c" -> 9 [] name = "c1bar" -> 10
    [] name = "c2bar" -> 11 [] name = "c1" -> 12 [] name = "c2" -> 13

NonNeg(x) == IF x < 0 THEN 0 ELSE x

LastSample(var) ==
  CkVal(TagOf(var[1]), IF var[2] = "" THEN "s" ELSE var[2],
        NonNeg(var[3]), NonNeg(var[4]), NonNeg(var[5]), NumSamples)

\* the points of particle p that were given an initial condition, per profile
PointsGiven(name, p) ==
  {initial[n].var[5] : n \in {m \in DOMAIN initial :
     /\ initial[m].var[1] = name
     /\ <<initial[m].var[2], initial[m].var[3], initial[m].var[4]>> = p}}

\* the perturbation added to point k of profile `name` of particle p
Perturbation(name, p, k) == ValueOf(Var(name, p[1], p[2], p[3], k)) - ndD_s["cs0"][p[1]]

PerturbationSeq(name, p) ==
  [k \in 1..PyInt(CountAt(p)) |-> Perturbation(name, p, k - 1)]

----------------------------------------------------------------------------
(* Properties of Run, under SpecRun *)

\* C1: if on some step the time the integration call returns is strictly less
\* than the requested report time, that step's data is recorded and its
\* progress emitted, the driver is Stopped, and IntegrateUntilTime is never
\* called for a later report time: the halted step is the last integration
\* call, report and progress update of the run, in this and every later state.
C1_EarlyHaltStops ==
  \A k \in 1..Len(Reports) :
    HaltedAt(k) =>
      /\ runState = "Stopped"
      /\ Len(Integrations) = k
      /\ Len(Reports) = k
      /\ Len(Progresses) = k
      /\ \A n \in 1..k : Integrations[n][1] = ReportingTimes[n]

\* report times [t1, t2, t3], a halt on the second step: two integration calls,
\* two recordings, t3 never requested
C1_Witness ==
  /\ Len(ReportingTimes) = 3
  /\ HaltedAt(2)
  /\ ~HaltedAt(1)
  /\ Len(Integrations) = 2
  /\ Len(Reports) = 2
  /\ runState = "Stopped"

\* C2: if the solver reaches the requested time on every step, the driver
\* makes one integration call per report time, in the order of ReportingTimes,
\* each followed by one ReportData and one SetProgress; once the loop has
\* started it is Stopped exactly when all N report times have been processed
\* (for N = 0, Stopped with no integration call).
C2_AllStepsVisited ==
  AllReached =>
    /\ Len(Integrations) <= Len(ReportingTimes)
    /\ \A k \in 1..Len(Integrations) :
         /\ Integrations[k][1] = ReportingTimes[k]
         /\ events[4 * k - 2].call = "IntegrateUntilTime"
         /\ events[4 * k - 1].call = "ReportData"
         /\ events[4 * k].call = "SetProgress"
    /\ Len(events) = 4 * Len(Integrations)
    /\ Len(Progresses) = Len(Integrations)
    /\ runState # "Idle" => (runState = "Stopped" <=> Len(Integrations) = Len(ReportingTimes))

C2_Witness ==
  /\ Len(ReportingTimes) = 3
  /\ AllReached
  /\ runState = "Stopped"
  /\ Len(Reports) = 3

\* Run on an empty ReportingTimes
C2_WitnessEmpty ==
  /\ ReportingTimes = <<>>
  /\ runState = "Stopped"
  /\ events = <<>>

----------------------------------------------------------------------------
(* Properties of SetUpVariables, under Spec *)

\* C3: for a valid configuration with restart enabled and a well-formed
\* checkpoint, SetUpVariables completes, every value it gives (filling
\* fractions, reaction rates, bulk potentials, particle averages and every
\* point of every particle profile, electrolyte concentrations and potentials
\* of the separator and of each region, the applied potential) is the last time
\* sample the checkpoint stores under the corresponding key and index, every
\* such quantity is given, and no random value is drawn.
C3_RestartUsesLastSample ==
  (RestartMode /\ ValidConfig /\ WellFormedCheckpoint /\ varsRun.done # "no") =>
    /\ varsRun.done = "ok"
    /\ \A n \in DOMAIN initial :
         initial[n].var[1] # "dummyVar" => initial[n].val = LastSample(initial[n].var)
    /\ DomainVars \subseteq {initial[n].var : n \in DOMAIN initial}
    /\ rngPos = 0

C3_Witness ==
  /\ RestartMode /\ ValidConfig /\ WellFormedCheckpoint
  /\ varsRun.done = "ok"
  /\ NumSamples >= 2
  /\ ndD_s["Nvol"]["s"] >= 1
  /\ Len(ndD_s["trodes"]) = 2
  /\ \E p, q \in Particles(ndD_s) :
       SingleField(p) /\ TwoField(q) /\ PyInt(CountAt(p)) >= 2 /\ PyInt(CountAt(q)) >= 2

\* C4: for a valid configuration with restart disabled, SetUpVariables gives
\* every point of the discretization of every single-field particle the initial
\* condition cs0 of the particle's region, exactly, gives no other point of it a
\* value, and gives its average concentration the guess cs0.
C4_SingleFieldExact ==
  (~RestartMode /\ ValidConfig /\ varsRun.done # "no") =>
    /\ varsRun.done = "ok"
    /\ \A p \in Particles(ndD_s) :
         SingleField(p) =>
           /\ PointsGiven("c", p) = 0..(PyInt(CountAt(p)) - 1)
           /\ \A n \in DOMAIN initial :
                (initial[n].var[1] = "c"
                   /\ <<initial[n].var[2], initial[n].var[3], initial[n].var[4]>> = p)
                => initial[n].val = ndD_s["cs0"][p[1]] /\ initial[n].kind = "condition"
           /\ Given(Var("cbar", p[1], p[2], p[3], -1)) # {}
           /\ \A n \in Given(Var("cbar", p[1], p[2], p[3], -1)) :
                initial[n].val = ndD_s["cs0"][p[1]] /\ initial[n].kind = "guess"

C4_Witness ==
  /\ ~RestartMode /\ ValidConfig
  /\ varsRun.done = "ok"
  /\ Len(ndD_s["trodes"]) = 2
  /\ \E p, q \in Particles(ndD_s) :
       /\ p[1] = "a" /\ q[1] = "c"
       /\ SingleField(p) /\ SingleField(q)
       /\ PyInt(CountAt(p)) >= 2

\* C6, as claimed: a particle whose type is in neither type list makes
\* SetUpVariables fail with UnknownSolidTypeError, with nothing given to that
\* particle; it never completes leaving the particle without values.
C6_UnknownTypeRaises ==
  \A p \in Particles(ndD_s) :
    (~SingleField(p) /\ ~TwoField(p) /\ varsRun.done # "no" /\ varsRun.nAlloc = 1) =>
      /\ varsRun.done = "raised"
      /\ err = "UnknownSolidTypeError"
      /\ \A n \in DOMAIN initial :
           <<initial[n].var[2], initial[n].var[3], initial[n].var[4]>> # p

\* C7, as claimed: SetUpVariables called before SetUpParametersAndDomains fails
\* with PrematureInitializationError and gives no value; and domains are
\* allocated at most once.
C7_PrematureInitializationFails ==
  /\ (ValidConfig /\ ~RestartMode /\ varsRun.done # "no" /\ varsRun.nAlloc = 0) =>
       (err = "PrematureInitializationError" /\ initial = <<>>)
  /\ NumAlloc <= 1

\* C8, as claimed: with restart enabled and a checkpoint that lacks a key the
\* configuration needs, __init__ or SetUpVariables fails with RestartDataError.
C8_MissingKeyRaisesRestartDataError ==
  (RestartMode /\ ~WellFormedCheckpoint /\ (pc = "failed" \/ varsRun.done # "no")) =>
    err = "RestartDataError"

\* C9: for a valid configuration, fresh or restart (with a well-formed
\* checkpoint), one run of SetUpVariables completes and gives a value exactly
\* once to every variable of the domain, and to nothing else.
C9_EveryVariableOnce ==
  (ValidConfig /\ (RestartMode => WellFormedCheckpoint) /\ varsRun.done # "no") =>
    /\ varsRun.done = "ok"
    /\ \A v \in DomainVars : Cardinality(Given(v)) = 1
    /\ \A n \in DOMAIN initial : initial[n].var \in DomainVars

C9_Witness ==
  /\ ~RestartMode /\ ValidConfig
  /\ varsRun.done = "ok"
  /\ ndD_s["Nvol"]["s"] >= 1
  /\ Len(ndD_s["trodes"]) = 2
  /\ \E p, q \in Particles(ndD_s) : SingleField(p) /\ TwoField(q)
  /\ Len(initial) = Cardinality(DomainVars)

\* the size SetUpParametersAndDomains allocated for particle p
AllocatedSizes(p) ==
  {Dmn[n][2] : n \in {m \in DOMAIN Dmn : Dmn[m][1] = Domain("particle", p[1], p[2], p[3])}}

\* C10, as claimed: whenever the domains were allocated, SetUpVariables does
\* not fail on the discretization count, and the points it gives an initial
\* condition to are exactly the index space allocated for the particle.
C10_PointsMatchAllocation ==
  (varsRun.done # "no" /\ varsRun.nAlloc >= 1 /\ (RestartMode => WellFormedCheckpoint)) =>
    /\ varsRun.done = "ok"
    /\ \A p \in Particles(ndD_s) : \A size \in AllocatedSizes(p) :
         /\ SingleField(p) => PointsGiven("c", p) = 0..(size - 1)
         /\ TwoField(p) =>
              PointsGiven("c1", p) = 0..(size - 1) /\ PointsGiven("c2", p) = 0..(size - 1)

----------------------------------------------------------------------------
(* Properties of the perturbation, under SpecPerturb *)

TheParticle == <<"c", 0, 0>>

\* C5, as claimed: each of the two perturbation sequences added to cs0 sums to
\* zero and every element is at most 0.00005 (epsrnd/2) in absolute value.
C5_PerturbationWithinHalfEps ==
  varsRun.done = "ok" =>
    \A name \in {"c1", "c2"} :
      /\ SumSeq(PerturbationSeq(name, TheParticle)) = 0
      /\ \A k \in 0..(PyInt(CountAt(TheParticle)) - 1) :
           2 * Abs(Perturbation(name, TheParticle, k)) <= epsrnd

\* C5, amended: each of the two perturbation sequences added to cs0 sums to
\* zero and every element is less than 0.0001 (epsrnd) in absolute value.
C5_PerturbationWithinEps ==
  varsRun.done = "ok" =>
    \A name \in {"c1", "c2"} :
      /\ SumSeq(PerturbationSeq(name, TheParticle)) = 0
      /\ \A k \in 0..(PyInt(CountAt(TheParticle)) - 1) :
           Abs(Perturbation(name, TheParticle, k)) < epsrnd

\* a two-field particle initialized with distinct, nonzero perturbations
C5_Witness ==
  /\ varsRun.done = "ok"
  /\ TwoField(TheParticle)
  /\ PyInt(CountAt(TheParticle)) >= 3
  /\ PerturbationSeq("c1", TheParticle) # PerturbationSeq("c2", TheParticle)
  /\ \E k \in 0..(PyInt(CountAt(TheParticle)) - 1) :
       2 * Abs(Perturbation("c1", TheParticle, k)) > epsrnd

====
